---- MODULE Spec2Model ----
(***************************************************************************)
(* Model of the catalog scraper (src/scraper.py): category discovery from  *)
(* the homepage menu, the per-category pagination loop and main's loop     *)
(* over the discovered categories.                                         *)
(*                                                                         *)
(* Strings are sequences of tokens, so that str.startswith, str.strip,     *)
(* trailing-slash trimming and case folding are computed, not assumed.     *)
(***************************************************************************)
EXTENDS Integers, Sequences, FiniteSets, TLC

VARIABLES
    pc,                     \* position in main
    homepage,               \* the homepage document served by the site
    homepage_soup,          \* result of fetch_page(HOMEPAGE_URL): "unset", "None", "soup"
    category_links,         \* dict full_url -> full_category_name (insertion ordered)
    category_list,          \* list of (name, url) returned by the resolver
    idx,                    \* position of main's for loop in category_list
    total_categories,
    categories_processed,
    total_products_scraped,
    ALL_PRODUCTS_DATA,
    current_url,            \* scrape_category_and_pages: page cursor
    page_count,
    products_for_category,
    soup,                   \* result of the last fetch_page in the pagination loop
    site,                   \* pages of the site seen so far: <<category, page>> -> content
    trace,                  \* history: per category, the fetches issued
    status,                 \* history: per category "pending", "active", "returned", "raised"
    accumulated,            \* history: per category, products_for_category when it stopped
    csv_written,
    emergency_break,
    csv_calls,              \* history: the row lists handed to the CSV writer
    products_table,         \* database.py: the rows of table 'products'
    table_before,           \* history: products_table before the last save_products_to_db
    db_batch,               \* history: the argument of the last save_products_to_db
    db_result,              \* history: what the last save_products_to_db returned
    db_calls,               \* history: the calls of save_products_to_db so far
    next_id,                \* the sequence behind Product.id
    last_saved,             \* history: source_url -> the record last saved with it
    db_failed,              \* history: the last call ran its except clause
    price_text,             \* extract_products: text of the price element
    price                   \* extract_products: the price stored in the record

\* the state of database.py and of the price extraction
aside == <<products_table, table_before, db_batch, db_result, db_calls, next_id,
           last_saved, db_failed, price_text, price>>

vars == <<pc, homepage, homepage_soup, category_links, category_list, idx,
          total_categories, categories_processed, total_products_scraped,
          ALL_PRODUCTS_DATA, current_url, page_count, products_for_category,
          soup, site, trace, status, accumulated, csv_written, emergency_break,
          csv_calls, aside>>

(***************************************************************************)
(* Bounds                                                                  *)
(***************************************************************************)
\* navigation links in a homepage menu
MaxLinks == 3
\* distinct listing pages of one category
MaxPages == 2
\* characters of a generated price text
MaxPriceLen == 3
\* calls of save_products_to_db in one run
MaxCalls == 2

(***************************************************************************)
(* Strings                                                                 *)
(***************************************************************************)
\* str.startswith
StartsWith(s, p) == Len(p) <= Len(s) /\ SubSeq(s, 1, Len(p)) = p

\* str.strip on a token sequence whose blanks are the token " "
RECURSIVE LStrip(_)
LStrip(s) == IF s # <<>> /\ Head(s) = " " THEN LStrip(Tail(s)) ELSE s

RECURSIVE RStrip(_)
RStrip(s) ==
    IF s # <<>> /\ s[Len(s)] = " " THEN RStrip(SubSeq(s, 1, Len(s) - 1)) ELSE s

Strip(s) == LStrip(RStrip(s))

\* the base URL the scraper is configured with (WEBSITE_URL): an origin without a path
BASE_URL == <<"http:", "/", "/", "h">>

\* urllib.parse.urljoin against a base that has no path
urljoin(base, href) ==
    IF href = <<>> THEN base
    ELSE IF Head(href) = "http:" THEN href
    ELSE IF Len(href) > 2 /\ href[1] = "/" /\ href[2] = "/" /\ href[3] # "/"
        THEN <<"http:">> \o href
    ELSE IF Head(href) \in {"/", "?", "#"} THEN base \o href
    ELSE base \o <<"/">> \o href

(***************************************************************************)
(* The homepage menu                                                       *)
(***************************************************************************)
\* hrefs found in menus: missing, placeholders, absolute paths, a relative
\* path, a trailing-slash variant, a case variant, a child and a sibling
\* that extends another href as a string
Hrefs ==
    { <<>>, <<"#">>, <<"/">>, <<"javascript:", "v">>,
      <<"/", "a">>, <<"/", "a", "/">>, <<"/", "A">>, <<"a">>,
      <<"/", "a", "/", "b">>, <<"/", "a", "b">> }

Texts == { <<"T">>, <<" ", "U", " ">> }

\* an anchor of the menu: inside a list item ("leaf") or inside an h3 ("index")
Links ==
    { l \in [kind : {"leaf", "index"}, href : Hrefs, text : Texts] :
        l.kind = "index" => l.text = <<"T">> }

(***************************************************************************)
(* discover_all_product_categories                                         *)
(***************************************************************************)
\* menu_container = homepage_soup.select_one('.sections.nav-sections'); the
\* faulty variant falls back to the whole document
HasMenuContainerAnywhere(hp) == TRUE

HasMenuContainer(hp) == hp.container

RECURSIVE PositionsOfKind(_, _, _)
PositionsOfKind(doc, kind, i) ==
    IF i > Len(doc) THEN <<>>
    ELSE IF doc[i].kind = kind THEN <<i>> \o PositionsOfKind(doc, kind, i + 1)
    ELSE PositionsOfKind(doc, kind, i + 1)

\* menu_container.select('.navigation-menu__column ul li a'), as document positions
leaf_links(doc) == PositionsOfKind(doc, "leaf", 1)

\* menu_container.select('.navigation-menu__column h3 a'), as document positions
index_links(doc) == PositionsOfKind(doc, "index", 1)

\* all_links = list(leaf_links) + list(index_links); the faulty variant takes
\* the links in the order of the document
AllLinksDocumentOrder(doc) == [i \in 1..Len(doc) |-> i]

all_links(doc) == leaf_links(doc) \o index_links(doc)

\* link.find_previous('h3'): the enclosing h3 of a heading anchor, else the
\* nearest h3 that precedes the link in the document (0 = None)
find_previous_h3(doc, i) ==
    IF doc[i].kind = "index" THEN i
    ELSE LET before == { j \in 1..(i - 1) : doc[j].kind = "index" }
         IN  IF before = {} THEN 0
             ELSE CHOOSE j \in before : \A k \in before : k <= j

\* the placeholder check on href
IsCandidateHref(href) ==
    /\ href # <<>>
    /\ href \notin { <<"#">>, <<"/">> }
    /\ ~StartsWith(href, <<"javascript:">>)

full_category_name(doc, i) ==
    LET title == Strip(doc[i].text)
        h3    == find_previous_h3(doc, i)
    IN  IF h3 # 0 THEN Strip(doc[h3].text) \o <<" > ">> \o title ELSE title

HasKey(d, k) == \E i \in 1..Len(d) : d[i].url = k

\* d[k] = v on a dict that keeps keys in first-insertion order; the faulty
\* variant keeps the value first stored under a key
DictSetFirstWins(d, k, v) ==
    IF HasKey(d, k) THEN d ELSE Append(d, [url |-> k, name |-> v])

DictSet(d, k, v) ==
    IF HasKey(d, k)
    THEN [i \in 1..Len(d) |-> IF d[i].url = k THEN [url |-> k, name |-> v] ELSE d[i]]
    ELSE Append(d, [url |-> k, name |-> v])

\* the loop over all_links that fills category_links
RECURSIVE CollectLinks(_, _, _)
CollectLinks(doc, order, d) ==
    IF order = <<>> THEN d
    ELSE LET i == Head(order)
         IN  IF IsCandidateHref(doc[i].href)
             THEN CollectLinks(doc, Tail(order),
                      DictSet(d, urljoin(BASE_URL, doc[i].href), full_category_name(doc, i)))
             ELSE CollectLinks(doc, Tail(order), d)

Keys(d) == [i \in 1..Len(d) |-> d[i].url]

\* the inner loop over all_urls; the faulty variants require a '/' after the
\* prefix, look only at the URL that follows current_url in all_urls, pass
\* over the trailing-slash variant of current_url, or compare current_url
\* with itself too
IsParentOfAnotherNotVariant(cur, all_urls) ==
    \E i \in 1..Len(all_urls) :
        /\ cur # all_urls[i]
        /\ StartsWith(all_urls[i], cur)
        /\ all_urls[i] # cur \o <<"/">>

IsParentOfAnotherSelf(cur, all_urls) ==
    \E i \in 1..Len(all_urls) : StartsWith(all_urls[i], cur)

IsParentOfAnotherSegment(cur, all_urls) ==
    \E i \in 1..Len(all_urls) :
        cur # all_urls[i] /\ StartsWith(all_urls[i], cur \o <<"/">>)

IsParentOfAnotherNextOnly(cur, all_urls) ==
    \E i \in 1..(Len(all_urls) - 1) :
        all_urls[i] = cur /\ cur # all_urls[i + 1] /\ StartsWith(all_urls[i + 1], cur)

is_parent_of_another(cur, all_urls) ==
    \E i \in 1..Len(all_urls) :
        cur # all_urls[i] /\ StartsWith(all_urls[i], cur)

\* the ancestor filter: final_category_links from category_links
AncestorFilter(d) ==
    LET all_urls == Keys(d)
        Keep(e)  == ~is_parent_of_another(e.url, all_urls)
    IN  SelectSeq(d, Keep)

\* category_links as filled by the resolver ({} when it returns early)
CandidateLinks(hp) ==
    IF ~HasMenuContainer(hp) THEN <<>>
    ELSE CollectLinks(hp.links, all_links(hp.links), <<>>)

\* the list of (name, url) the resolver returns
discover_all_product_categories(hp) ==
    LET final == AncestorFilter(CandidateLinks(hp))
    IN  [i \in 1..Len(final) |-> <<final[i].name, final[i].url>>]

(***************************************************************************)
(* The site and its listing pages                                          *)
(***************************************************************************)
\* Python's None where a URL or an href is expected
None == <<>>

\* fetch_page's None where a document is expected
NoSoup == [ok |-> FALSE, url |-> None, products |-> 0, next |-> None]

\* product cards a listing page can carry: none, one, several
ProductCounts == {0, 1, 2}

\* homepages of the runs of main: the menu container missing, an empty
\* menu, placeholders only, a parent with its child, two categories, three
\* categories
RunHomepages ==
    { [container |-> FALSE,
       links |-> << [kind |-> "leaf", href |-> <<"/", "a">>, text |-> <<"T">>] >>],
      [container |-> TRUE, links |-> <<>>],
      [container |-> TRUE,
       links |-> << [kind |-> "leaf", href |-> <<"#">>, text |-> <<"T">>] >>],
      [container |-> TRUE,
       links |-> << [kind |-> "index", href |-> <<"/", "a">>, text |-> <<"T">>],
                    [kind |-> "leaf", href |-> <<"/", "a", "/", "b">>,
                     text |-> <<" ", "U", " ">>] >>],
      [container |-> TRUE,
       links |-> << [kind |-> "leaf", href |-> <<"/", "a", "/", "b">>, text |-> <<"T">>],
                    [kind |-> "leaf", href |-> <<"/", "A">>,
                     text |-> <<" ", "U", " ">>] >>],
      [container |-> TRUE,
       links |-> << [kind |-> "index", href |-> <<"/", "a", "b">>, text |-> <<"T">>],
                    [kind |-> "leaf", href |-> <<"/", "a", "/", "b">>, text |-> <<"T">>],
                    [kind |-> "leaf", href |-> <<"/", "A">>,
                     text |-> <<" ", "U", " ">>] >>] }

\* the URL of listing page k of the category at start_url
PageUrl(start_url, k) == IF k = 1 THEN start_url ELSE start_url \o <<"?p=", k>>

PageNumber(start_url, url) ==
    CHOOSE k \in 1..(MaxPages + 1) : PageUrl(start_url, k) = url

\* the rel=next hrefs page k of a category can carry: none, the following
\* page, or back to the first page
NextHrefs(start_url, k) ==
    {None, PageUrl(start_url, 1)}
        \cup (IF k < MaxPages THEN {PageUrl(start_url, k + 1)} ELSE {})

Known(url) == url \in DOMAIN site

\* extract_products(soup, category_name): one record per product card
extract_products(sp, category_name) ==
    [j \in 1..sp.products |-> [category |-> category_name, page |-> sp.url, item |-> j]]

\* extract_products, the price of one product card: price = 'N/A' unless the
\* card has a price element
NA == <<"N/A">>

\* str.replace(old, new) on the characters of a text (new = "" removes)
RECURSIVE Replace(_, _, _)
Replace(s, old, new) ==
    IF s = <<>> THEN <<>>
    ELSE (IF s[1] = old THEN (IF new = "" THEN <<>> ELSE <<new>>) ELSE <<s[1]>>)
            \o Replace(Tail(s), old, new)

\* price_text.replace('€', '').replace(',', '.').strip()
ParsePrice(text) == Strip(Replace(Replace(text, "€", ""), ",", "."))

\* the characters of the generated price texts, and runs of digits
PriceChars == {"€", " ", "1", ".", ","}

DigitRuns == {"1", "234", "56"}

\* price texts: every text of up to MaxPriceLen characters, and '€ 1.234,56'
PriceTexts ==
    UNION { [1..k -> PriceChars] : k \in 0..MaxPriceLen }
        \cup { <<"€", " ", "1", ".", "234", ",", "56">> }

\* products_for_category.extend(products_on_page); the faulty variant assigns
extendOverwrite(acc, products_on_page) == products_on_page

extend(acc, products_on_page) == acc \o products_on_page

\* the two empty-page tests of the pagination loop; the faulty variant stops
\* on an empty first page only
IsEmptyStopFirstPageOnly(products_on_page, count) ==
    products_on_page = <<>> /\ count = 1

IsEmptyStop(products_on_page, count) ==
    \/ products_on_page = <<>> /\ count = 1
    \/ products_on_page = <<>> /\ count > 1

\* what scrape_category_and_pages returns after the fetch-error break; the
\* faulty variant drops the partial result
ResultAfterFetchErrorDiscard(acc) == <<>>

ResultAfterFetchError(acc) == acc

\* total_products_scraped += len(products_data); the faulty variant assigns
AddToTotalAssign(total, products_data) == Len(products_data)

AddToTotal(total, products_data) == total + Len(products_data)

\* ALL_PRODUCTS_DATA.extend(product_data); the faulty variant puts the new
\* records in front
ExtendGlobalPrepend(all_data, product_data) == product_data \o all_data

ExtendGlobal(all_data, product_data) == all_data \o product_data

\* categories_processed += 1; the faulty variant counts a category twice
ProcessedTwice(processed) == processed + 2

Processed(processed) == processed + 1

\* the calls that hand records to the CSV writer: one for all of
\* ALL_PRODUCTS_DATA when it is not empty; the faulty variant writes always
WriteCsvAlways(calls, all_data) == Append(calls, all_data)

WriteCsv(calls, all_data) == IF all_data # <<>> THEN Append(calls, all_data) ELSE calls

\* the fetches of one category beyond which the model stops recording: more
\* fetches than the category has pages means the pagination chain is a cycle
Saturated == page_count > MaxPages

category_name == category_list[idx][1]
category_url == category_list[idx][2]

(***************************************************************************)
(* main and scrape_category_and_pages                                      *)
(***************************************************************************)
\* nothing saved to the database, no price extracted
AsideInit ==
    /\ products_table = {}
    /\ table_before = {}
    /\ db_batch = <<>>
    /\ db_result = 0
    /\ db_calls = 0
    /\ next_id = 1
    /\ last_saved = <<>>
    /\ db_failed = FALSE
    /\ price_text = <<>>
    /\ price = NA

locals == <<current_url, page_count, products_for_category, soup>>
counters == <<idx, total_categories, categories_processed, total_products_scraped>>
history == <<trace, status, accumulated>>

InitRest ==
    /\ category_links = <<>>
    /\ category_list = <<>>
    /\ idx = 0
    /\ total_categories = 0
    /\ categories_processed = 0
    /\ total_products_scraped = 0
    /\ ALL_PRODUCTS_DATA = <<>>
    /\ current_url = None
    /\ page_count = 0
    /\ products_for_category = <<>>
    /\ soup = NoSoup
    /\ site = <<>>
    /\ trace = <<>>
    /\ status = <<>>
    /\ accumulated = <<>>
    /\ csv_written = FALSE
    /\ csv_calls = <<>>
    /\ AsideInit
    /\ emergency_break = FALSE

Init ==
    /\ pc = "start"
    /\ homepage \in RunHomepages
    /\ homepage_soup = "unset"
    /\ InitRest

\* the locals of scrape_category_and_pages go out of scope
LeaveScrape ==
    /\ current_url' = None
    /\ page_count' = 0
    /\ products_for_category' = <<>>
    /\ soup' = NoSoup

\* homepage_soup = fetch_page(HOMEPAGE_URL) and the fatal return
FetchHomepage ==
    /\ pc = "start"
    /\ \E ok \in BOOLEAN :
        /\ homepage_soup' = IF ok THEN "soup" ELSE "None"
        /\ pc' = IF ok THEN "discover" ELSE "done"
    /\ UNCHANGED <<homepage, category_links, category_list, counters,
                   ALL_PRODUCTS_DATA, locals, site, history, csv_written, csv_calls, aside,
                   emergency_break>>

\* category_list = discover_all_product_categories(homepage_soup), the
\* return on an empty list, and the set-up of main's loop
Discover ==
    /\ pc = "discover"
    /\ category_links' = CandidateLinks(homepage)
    /\ category_list' = discover_all_product_categories(homepage)
    /\ IF category_list' = <<>>
       THEN /\ pc' = "done"
            /\ UNCHANGED <<counters, history>>
       ELSE /\ pc' = "loop"
            /\ idx' = 1
            /\ total_categories' = Len(category_list')
            /\ total_products_scraped' = 0
            /\ categories_processed' = 0
            /\ trace' = [c \in 1..Len(category_list') |-> <<>>]
            /\ status' = [c \in 1..Len(category_list') |-> "pending"]
            /\ accumulated' = [c \in 1..Len(category_list') |-> <<>>]
    /\ UNCHANGED <<homepage, homepage_soup, ALL_PRODUCTS_DATA, locals, site,
                   csv_written, csv_calls, aside, emergency_break>>

\* the head of main's for loop and the call of scrape_category_and_pages
NextCategory ==
    /\ pc = "loop"
    /\ IF idx > Len(category_list)
       THEN /\ pc' = "report"
            /\ UNCHANGED <<locals, status, emergency_break>>
       ELSE IF categories_processed >= total_categories
       THEN /\ pc' = "report"
            /\ emergency_break' = TRUE
            /\ UNCHANGED <<locals, status>>
       ELSE /\ pc' = "while"
            /\ current_url' = category_url
            /\ page_count' = 1
            /\ products_for_category' = <<>>
            /\ status' = [status EXCEPT ![idx] = "active"]
            /\ UNCHANGED <<soup, emergency_break>>
    /\ UNCHANGED <<homepage, homepage_soup, category_links, category_list,
                   counters, ALL_PRODUCTS_DATA, site, trace, accumulated,
                   csv_written, csv_calls, aside>>

Record(url, result) == [url |-> url, result |-> result]

\* soup = fetch_page(current_url) inside the while loop: the page, or None
\* on a RequestException. A page keeps the content it was first served with.
FetchPage ==
    /\ pc = "while"
    /\ current_url # None
    /\ \/ /\ ~Saturated
          /\ soup' = NoSoup
          /\ trace' = [trace EXCEPT ![idx] = Append(@, Record(current_url, "error"))]
          /\ UNCHANGED site
       \/ \E n \in ProductCounts :
          \E nx \in NextHrefs(category_url, PageNumber(category_url, current_url)) :
            /\ Known(current_url) =>
                  n = site[current_url].products /\ nx = site[current_url].next
            /\ soup' = [ok |-> TRUE, url |-> current_url, products |-> n, next |-> nx]
            /\ site' = (current_url :> [products |-> n, next |-> nx]) @@ site
            /\ trace' = IF Saturated THEN trace
                        ELSE [trace EXCEPT ![idx] = Append(@, Record(current_url, "ok"))]
    /\ pc' = "process"
    /\ UNCHANGED <<homepage, homepage_soup, category_links, category_list,
                   counters, ALL_PRODUCTS_DATA, current_url, page_count,
                   products_for_category, status, accumulated, csv_written, csv_calls, aside,
                   emergency_break>>

\* the body of the while loop after the fetch
ProcessPage ==
    /\ pc = "process"
    /\ IF ~soup.ok
       THEN /\ products_for_category' = ResultAfterFetchError(products_for_category)
            /\ pc' = "return"
            /\ UNCHANGED <<current_url, page_count>>
       ELSE LET products_on_page == extract_products(soup, category_name)
            IN  IF IsEmptyStop(products_on_page, page_count)
                THEN /\ pc' = "return"
                     /\ UNCHANGED <<current_url, page_count, products_for_category>>
                ELSE /\ products_for_category' =
                            IF Saturated THEN products_for_category
                            ELSE extend(products_for_category, products_on_page)
                     /\ IF soup.next # None
                        THEN /\ current_url' = urljoin(BASE_URL, soup.next)
                             /\ page_count' =
                                    IF Saturated THEN page_count ELSE page_count + 1
                             /\ pc' = "while"
                        ELSE /\ current_url' = None
                             /\ pc' = "return"
                             /\ UNCHANGED page_count
    /\ UNCHANGED <<homepage, homepage_soup, category_links, category_list,
                   counters, ALL_PRODUCTS_DATA, soup, site, history, csv_written, csv_calls, aside,
                   emergency_break>>

\* an exception other than RequestException escapes the fetch of a page and
\* reaches main's except branch; the faulty variant leaves the loop there
CategoryRaisesAbort ==
    /\ pc = "while"
    /\ current_url # None
    /\ ~Saturated
    /\ trace' = [trace EXCEPT ![idx] = Append(@, Record(current_url, "raise"))]
    /\ status' = [status EXCEPT ![idx] = "raised"]
    /\ accumulated' = [accumulated EXCEPT ![idx] = products_for_category]
    /\ pc' = "report"
    /\ LeaveScrape
    /\ UNCHANGED <<homepage, homepage_soup, category_links, category_list,
                   counters, ALL_PRODUCTS_DATA, site, csv_written, csv_calls, aside, emergency_break>>

CategoryRaises ==
    /\ pc = "while"
    /\ current_url # None
    /\ ~Saturated
    /\ trace' = [trace EXCEPT ![idx] = Append(@, Record(current_url, "raise"))]
    /\ status' = [status EXCEPT ![idx] = "raised"]
    /\ accumulated' = [accumulated EXCEPT ![idx] = products_for_category]
    /\ categories_processed' = Processed(categories_processed)
    /\ idx' = idx + 1
    /\ pc' = "loop"
    /\ LeaveScrape
    /\ UNCHANGED <<homepage, homepage_soup, category_links, category_list,
                   total_categories, total_products_scraped, ALL_PRODUCTS_DATA,
                   site, csv_written, csv_calls, aside, emergency_break>>

\* return products_for_category, and the rest of the try block in main
ReturnCategory ==
    /\ pc = "return"
    /\ ALL_PRODUCTS_DATA' = ExtendGlobal(ALL_PRODUCTS_DATA, products_for_category)
    /\ total_products_scraped' = AddToTotal(total_products_scraped, products_for_category)
    /\ accumulated' = [accumulated EXCEPT ![idx] = products_for_category]
    /\ status' = [status EXCEPT ![idx] = "returned"]
    /\ categories_processed' = Processed(categories_processed)
    /\ idx' = idx + 1
    /\ pc' = "loop"
    /\ LeaveScrape
    /\ UNCHANGED <<homepage, homepage_soup, category_links, category_list,
                   total_categories, site, trace, csv_written, csv_calls, aside, emergency_break>>

\* the final report: the CSV is written when products were collected,
\* unless saving raises
Report ==
    /\ pc = "report"
    /\ IF ALL_PRODUCTS_DATA # <<>>
       THEN \E saved \in BOOLEAN : csv_written' = saved
       ELSE csv_written' = FALSE
    /\ csv_calls' = WriteCsv(csv_calls, ALL_PRODUCTS_DATA)
    /\ pc' = "done"
    /\ UNCHANGED <<homepage, homepage_soup, category_links, category_list,
                   counters, ALL_PRODUCTS_DATA, locals, site, history,
                   emergency_break, aside>>

Next ==
    \/ FetchHomepage
    \/ Discover
    \/ NextCategory
    \/ FetchPage
    \/ ProcessPage
    \/ CategoryRaises
    \/ ReturnCategory
    \/ Report

Spec == Init /\ [][Next]_vars

\* the program is sequential and always takes its next step
FairSpec == Spec /\ WF_vars(Next)

(***************************************************************************)
(* The resolver alone, on every menu of up to MaxLinks links               *)
(***************************************************************************)
InitResolver ==
    /\ pc = "discover"
    /\ \E k \in 0..MaxLinks :
        \E menu \in [1..k -> Links] : homepage = [container |-> TRUE, links |-> menu]
    /\ homepage_soup = "soup"
    /\ InitRest

NextResolver == Discover

ResolverSpec == InitResolver /\ [][NextResolver]_vars

(***************************************************************************)
(* database.py: save_products_to_db on table 'products'                    *)
(***************************************************************************)
SourceUrls == {"u1", "u2"}

Versions == {1, 2}

\* a models.Product as handed to save_products_to_db: observation v of the
\* catalog entry at source_url u; every field of it depends on v
Product(u, v) ==
    [website_name |-> <<"site", v>>, product_name |-> <<"name", v>>,
     price_excl_tax |-> v, category_path |-> <<"path", v>>,
     image_url |-> <<"img", v>>, source_url |-> u, sku |-> <<"sku", v>>]

Products == { Product(u, v) : u \in SourceUrls, v \in Versions }

BatchSizes == 0..2

Batches == UNION { [1..k -> Products] : k \in BatchSizes }

\* the VALUES row built from products_as_dicts, with the column defaults
\* (id from its sequence, scraped_at = now())
InsertedRow(p, id, now) ==
    [id |-> id, website_name |-> p.website_name, product_name |-> p.product_name,
     price_excl_tax |-> p.price_excl_tax, category_path |-> p.category_path,
     image_url |-> p.image_url, source_url |-> p.source_url, scraped_at |-> now,
     sku |-> p.sku]

\* on_conflict_do_update(index_elements=['source_url'], set_={...}); the
\* faulty variants do nothing on a conflict, or overwrite website_name too
OnConflictDoNothing(row, excluded) == row

OnConflictSetAll(row, excluded) == [excluded EXCEPT !.id = row.id]

OnConflictDoUpdate(row, excluded) ==
    [row EXCEPT !.product_name = excluded.product_name,
                !.price_excl_tax = excluded.price_excl_tax,
                !.category_path = excluded.category_path,
                !.image_url = excluded.image_url,
                !.sku = excluded.sku,
                !.scraped_at = excluded.scraped_at]

\* a batch that proposes the same source_url twice makes the statement fail
\* (an ON CONFLICT DO UPDATE command cannot affect a row a second time)
HasDuplicateKey(products) ==
    \E i \in 1..Len(products) : \E j \in 1..Len(products) :
        i # j /\ products[i].source_url = products[j].source_url

\* the table after the first n VALUES rows of the statement were applied
RECURSIVE Upsert(_, _, _, _, _)
Upsert(table, products, n, id0, now) ==
    IF n = 0 THEN table
    ELSE LET before   == Upsert(table, products, n - 1, id0, now)
             excluded == InsertedRow(products[n], id0 + n - 1, now)
             hit      == { r \in before : r.source_url = excluded.source_url }
         IN  IF hit = {} THEN before \cup {excluded}
             ELSE (before \ hit) \cup { OnConflictDoUpdate(r, excluded) : r \in hit }

\* await session.rollback(); the faulty variant leaves the transaction's writes
RollbackKeepsWrites(table, written) == written

Rollback(table, written) == table

RECURSIVE RecordSaved(_, _, _)
RecordSaved(saved, products, n) ==
    IF n = 0 THEN saved
    ELSE (products[n].source_url :> products[n]) @@ RecordSaved(saved, products, n - 1)

scraper == <<pc, homepage, homepage_soup, category_links, category_list, idx,
             total_categories, categories_processed, total_products_scraped,
             ALL_PRODUCTS_DATA, current_url, page_count, products_for_category,
             soup, site, trace, status, accumulated, csv_written, emergency_break,
             csv_calls>>

\* what every call of save_products_to_db records
Called(products) ==
    /\ db_calls < MaxCalls
    /\ db_calls' = db_calls + 1
    /\ db_batch' = products
    /\ table_before' = products_table
    /\ UNCHANGED <<scraper, price_text, price>>

\* if not products: return 0
SaveNothing ==
    /\ Called(<<>>)
    /\ db_result' = 0
    /\ db_failed' = FALSE
    /\ UNCHANGED <<products_table, next_id, last_saved>>

\* execute and commit succeed: return len(products)
SaveCommitted ==
    \E products \in Batches :
        /\ products # <<>>
        /\ ~HasDuplicateKey(products)
        /\ Called(products)
        /\ products_table' =
              Upsert(products_table, products, Len(products), next_id, db_calls + 1)
        /\ next_id' = next_id + Len(products)
        /\ last_saved' = RecordSaved(last_saved, products, Len(products))
        /\ db_result' = Len(products)
        /\ db_failed' = FALSE

\* session.execute raises after n rows of the statement (always, when the
\* batch proposes a source_url twice), or session.commit raises: rollback, return 0
SaveFails ==
    \E products \in Batches : \E n \in 0..Len(products) :
        /\ products # <<>>
        /\ HasDuplicateKey(products) => n < Len(products)
        /\ Called(products)
        /\ products_table' =
              Rollback(products_table,
                       Upsert(products_table, products, n, next_id, db_calls + 1))
        /\ next_id' = next_id + n
        /\ db_result' = 0
        /\ db_failed' = TRUE
        /\ UNCHANGED last_saved

\* the scraper is idle while the store is exercised
InitStore ==
    /\ pc = "start"
    /\ homepage = [container |-> FALSE, links |-> <<>>]
    /\ homepage_soup = "unset"
    /\ InitRest

NextStore == SaveNothing \/ SaveCommitted \/ SaveFails

StoreSpec == InitStore /\ [][NextStore]_vars

(***************************************************************************)
(* extract_products: the price of a product card that has a price element  *)
(***************************************************************************)
ExtractPrice ==
    \E text \in PriceTexts :
        /\ price_text' = text
        /\ price' = ParsePrice(text)
        /\ UNCHANGED <<scraper, products_table, table_before, db_batch, db_result,
                       db_calls, next_id, last_saved, db_failed>>

InitPrice == InitStore

NextPrice == ExtractPrice

PriceSpec == InitPrice /\ [][NextPrice]_vars

(***************************************************************************)
(* Properties of the resolver                                              *)
(***************************************************************************)
\* the resolver has run on a fetched homepage
Resolved == pc \notin {"start", "discover"} /\ homepage_soup = "soup"

OutputUrls == { category_list[i][2] : i \in 1..Len(category_list) }

\* final_category_links, rebuilt from the returned list
FinalCategoryLinks ==
    [i \in 1..Len(category_list) |->
        [url |-> category_list[i][2], name |-> category_list[i][1]]]

\* str.lower on the tokens of a URL
Lower(tok) == IF tok = "A" THEN "a" ELSE tok

CaseFold(s) == [i \in 1..Len(s) |-> Lower(s[i])]

RECURSIVE TrimSlashes(_)
TrimSlashes(s) ==
    IF s # <<>> /\ s[Len(s)] = "/" THEN TrimSlashes(SubSeq(s, 1, Len(s) - 1)) ELSE s

\* a URL with its trailing slashes trimmed and its case folded
Normalized(u) == CaseFold(TrimSlashes(u))

\* C1 as stated: no two distinct URLs of the resolver's output are such that,
\* after trimming trailing '/' and case-folding both, one is a prefix of the other.
C1_NoNormalizedPrefixPair ==
    Resolved =>
        \A u \in OutputUrls : \A v \in OutputUrls :
            u # v => ~StartsWith(Normalized(v), Normalized(u))

\* C1 as amended: no two distinct URLs of the resolver's output are such that
\* one is a prefix of the other as an exact string (no trimming, no case folding).
C1_NoExactPrefixPair ==
    Resolved =>
        \A u \in OutputUrls : \A v \in OutputUrls : u # v => ~StartsWith(v, u)

\* the filter dropped a candidate and kept at least two
C1_Witness ==
    /\ Resolved
    /\ Len(category_list) >= 2
    /\ Len(category_links) > Len(category_list)

\* C2: the ancestor filter applied to the candidates it kept removes nothing.
C2_FilterIdempotent ==
    Resolved => AncestorFilter(FinalCategoryLinks) = FinalCategoryLinks

\* the filter dropped two of three candidates
C2_Witness ==
    /\ Resolved
    /\ Len(category_links) = 3
    /\ Len(category_list) = 1

CandidatePositions(doc) == { i \in 1..Len(doc) : IsCandidateHref(doc[i].href) }

ResolvedUrl(doc, i) == urljoin(BASE_URL, doc[i].href)

\* the document position of the last link processed that resolves to url
LastProcessed(doc, url) ==
    LET order == all_links(doc)
        hits  == { k \in 1..Len(order) :
                     /\ order[k] \in CandidatePositions(doc)
                     /\ ResolvedUrl(doc, order[k]) = url }
    IN  order[CHOOSE k \in hits : \A m \in hits : m <= k]

\* C3: links that resolve to the same absolute URL are one candidate, no URL
\* appears twice in the output, and a candidate's label is that of the last
\* such link processed.
C3_OneCandidatePerUrl ==
    (Resolved /\ homepage.container) =>
        LET doc == homepage.links
        IN  /\ \A i \in 1..Len(category_links) : \A j \in 1..Len(category_links) :
                    i # j => category_links[i].url # category_links[j].url
            /\ { category_links[i].url : i \in 1..Len(category_links) }
                    = { ResolvedUrl(doc, i) : i \in CandidatePositions(doc) }
            /\ \A i \in 1..Len(category_links) :
                    category_links[i].name
                        = full_category_name(doc, LastProcessed(doc, category_links[i].url))
            /\ \A i \in 1..Len(category_list) : \A j \in 1..Len(category_list) :
                    i # j => category_list[i][2] # category_list[j][2]

\* two links with different labels resolve to the same URL
C3_Witness ==
    /\ Resolved
    /\ homepage.container
    /\ \E i \in CandidatePositions(homepage.links) :
       \E j \in CandidatePositions(homepage.links) :
            /\ i # j
            /\ ResolvedUrl(homepage.links, i) = ResolvedUrl(homepage.links, j)
            /\ full_category_name(homepage.links, i) # full_category_name(homepage.links, j)
    /\ category_list # <<>>

(***************************************************************************)
(* Properties of the crawl                                                 *)
(***************************************************************************)
Categories == DOMAIN status

\* the records the page at url yields for category c
PageRecords(c, url) ==
    extract_products([ok |-> TRUE, url |-> url, products |-> site[url].products,
                      next |-> site[url].next], category_list[c][1])

\* the records of the pages fetched successfully among the first n fetches of c
RECURSIVE RecordsOfPages(_, _)
RecordsOfPages(c, n) ==
    IF n = 0 THEN <<>>
    ELSE IF trace[c][n].result = "ok"
    THEN RecordsOfPages(c, n - 1) \o PageRecords(c, trace[c][n].url)
    ELSE RecordsOfPages(c, n - 1)

AllPagesServed(c) ==
    \A i \in 1..Len(trace[c]) :
        trace[c][i].result = "ok" /\ site[trace[c][i].url].products > 0

\* C4: a category whose fetched pages all succeed and all carry products is
\* crawled along its chain of rel=next links from its own URL up to the first
\* page without one, one fetch per page and none after it, and returns the
\* records of all these pages.
C4_PaginationTermination ==
    \A c \in Categories :
        (status[c] = "returned" /\ AllPagesServed(c)) =>
            LET t == trace[c]
                N == Len(t)
            IN  /\ N >= 1
                /\ t[1].url = category_list[c][2]
                /\ \A i \in 1..(N - 1) :
                        /\ site[t[i].url].next # None
                        /\ t[i + 1].url = urljoin(BASE_URL, site[t[i].url].next)
                /\ site[t[N].url].next = None
                /\ accumulated[c] = RecordsOfPages(c, N)

\* a category of two pages was crawled to its end
C4_Witness ==
    \E c \in Categories :
        /\ status[c] = "returned"
        /\ AllPagesServed(c)
        /\ Len(trace[c]) = 2
        /\ Len(accumulated[c]) > 1

IsEmptyFetch(c, i) ==
    trace[c][i].result = "ok" /\ site[trace[c][i].url].products = 0

\* C5: a fetched page without products is the last fetch of its category,
\* whatever its page number and its rel=next link, and the category returns
\* the records of the pages before it.
C5_EmptyPageStop ==
    \A c \in Categories : \A i \in 1..Len(trace[c]) :
        IsEmptyFetch(c, i) =>
            /\ i = Len(trace[c])
            /\ status[c] # "raised"
            /\ status[c] = "active" => pc \in {"process", "return"}
            /\ (status[c] = "active" /\ pc = "return") =>
                    products_for_category = RecordsOfPages(c, i - 1)
            /\ status[c] = "returned" => accumulated[c] = RecordsOfPages(c, i - 1)

\* an empty second page that carries a rel=next link ended a category
C5_Witness ==
    \E c \in Categories :
        /\ status[c] = "returned"
        /\ Len(trace[c]) = 2
        /\ IsEmptyFetch(c, 2)
        /\ site[trace[c][2].url].next # None
        /\ accumulated[c] # <<>>

\* C6: a failed fetch is the last fetch of its category (no retry, no later
\* page), and the category returns the records of the pages before it.
C6_FetchFailureStop ==
    \A c \in Categories : \A i \in 1..Len(trace[c]) :
        trace[c][i].result = "error" =>
            /\ i = Len(trace[c])
            /\ status[c] # "raised"
            /\ status[c] = "active" => pc \in {"process", "return"}
            /\ status[c] = "returned" => accumulated[c] = RecordsOfPages(c, i - 1)

\* the fetch of a second page failed and the first page's records were returned
C6_Witness ==
    \E c \in Categories :
        /\ status[c] = "returned"
        /\ Len(trace[c]) = 2
        /\ trace[c][2].result = "error"
        /\ accumulated[c] # <<>>

RECURSIVE SumOver(_, _)
SumOver(f, n) == IF n = 0 THEN 0 ELSE SumOver(f, n - 1) + f[n]

RunEnded == pc = "done" /\ Resolved /\ category_list # <<>>

\* C7 as stated: every category is crawled, and the final total is the sum
\* over all categories of the records each had accumulated when it stopped,
\* by a return or by an exception.
C7_TotalOfAllAccumulated ==
    RunEnded =>
        /\ \A c \in Categories : status[c] \in {"returned", "raised"}
        /\ total_products_scraped
              = SumOver([c \in Categories |-> Len(accumulated[c])], Len(category_list))

\* C7 as amended: every category is crawled, a category that returns hands
\* over exactly the records of its own pages, and the final total is the sum
\* over the categories that returned; a category that raised adds nothing.
C7_Isolation ==
    RunEnded =>
        /\ \A c \in Categories : status[c] \in {"returned", "raised"}
        /\ \A c \in Categories :
              status[c] = "returned" => accumulated[c] = RecordsOfPages(c, Len(trace[c]))
        /\ total_products_scraped
              = SumOver([c \in Categories |->
                            IF status[c] = "returned" THEN Len(accumulated[c]) ELSE 0],
                        Len(category_list))

\* a category raised after it had accumulated records, and a later one returned records
C7_Witness ==
    /\ RunEnded
    /\ \E c \in Categories : \E d \in Categories :
        /\ c < d
        /\ status[c] = "raised"
        /\ accumulated[c] # <<>>
        /\ status[d] = "returned"
        /\ accumulated[d] # <<>>

\* C8: every run reaches main's final report and ends.
C8_RunTerminates == <>(pc = "done")

\* the concurrency limit of the scheduler
MAX_CONCURRENT_CATEGORIES == 10

Active == { c \in Categories : status[c] = "active" }

Failed(c) ==
    \/ status[c] = "raised"
    \/ status[c] = "returned" /\ \E i \in 1..Len(trace[c]) : trace[c][i].result = "error"

\* C9: the crawls started and not finished never exceed the limit, a crawl
\* that ended holds no slot, and after a failed category the next one starts.
C9_ConcurrencyBound ==
    /\ Cardinality(Active) <= MAX_CONCURRENT_CATEGORIES
    /\ \A c \in Active : c = idx /\ pc \in {"while", "process", "return"}
    /\ \A c \in Categories :
          (Failed(c) /\ c < Len(category_list)) =>
              \/ pc = "loop" /\ idx = c + 1 /\ categories_processed < total_categories
              \/ status[c + 1] # "pending"

\* a category failed and the one after it was crawled
C9_Witness ==
    \E c \in Categories :
        /\ c < Len(category_list)
        /\ Failed(c)
        /\ status[c + 1] = "returned"

FatalCondition ==
    \/ homepage_soup = "None"
    \/ Resolved /\ (~homepage.container \/ category_list = <<>>)

\* C10: when the homepage fetch failed, the menu container is missing or no
\* category was resolved, main has ended without fetching a category page,
\* collecting a record or writing the CSV.
C10_FatalAbortsBeforeCrawl ==
    FatalCondition =>
        /\ pc = "done"
        /\ DOMAIN site = {}
        /\ \A c \in DOMAIN trace : trace[c] = <<>>
        /\ Categories = {}
        /\ ALL_PRODUCTS_DATA = <<>>
        /\ ~csv_written

\* the homepage was fetched, and its links lie outside a menu container
C10_Witness ==
    /\ pc = "done"
    /\ homepage_soup = "soup"
    /\ ~homepage.container
    /\ homepage.links # <<>>

(***************************************************************************)
(* Properties of the store (StoreSpec)                                     *)
(***************************************************************************)
BatchUrls == { db_batch[i].source_url : i \in 1..Len(db_batch) }

Committed == db_calls > 0 /\ ~db_failed /\ db_batch # <<>>

\* C11: after any sequence of successful saves the table holds at most one row
\* per source_url, a row for exactly the source_urls saved so far, and each
\* row's name, price, category path, image URL and SKU are those of the record
\* most recently saved with its source_url.
C11_UpsertIdempotence ==
    /\ \A r1 \in products_table : \A r2 \in products_table :
          r1.source_url = r2.source_url => r1 = r2
    /\ { r.source_url : r \in products_table } = DOMAIN last_saved
    /\ \A r \in products_table :
          \A u \in DOMAIN last_saved :
              r.source_url = u =>
                  /\ r.product_name = last_saved[u].product_name
                  /\ r.price_excl_tax = last_saved[u].price_excl_tax
                  /\ r.category_path = last_saved[u].category_path
                  /\ r.image_url = last_saved[u].image_url
                  /\ r.sku = last_saved[u].sku

\* a source_url saved a second time with another price: one row, second price
C11_Witness ==
    /\ Committed
    /\ \E old \in table_before : \E r \in products_table :
          /\ old.source_url = r.source_url
          /\ old.source_url \in BatchUrls
          /\ old.price_excl_tax # r.price_excl_tax

\* C12: a call whose execute or commit failed returns 0 and leaves the table
\* exactly as it was before the call; a call that committed returns the number
\* of records of its batch.
C12_AllOrNothing ==
    db_calls > 0 =>
        /\ db_failed => db_result = 0 /\ products_table = table_before
        /\ Committed => db_result = Len(db_batch)

\* a two-record batch failed against a table that already had rows
C12_Witness ==
    /\ db_calls > 0
    /\ db_failed
    /\ Len(db_batch) = 2
    /\ table_before # {}

\* C16: a committed upsert keeps id, source_url and website_name of every row
\* it conflicts with, overwrites that row's name, price, category path, image
\* URL, SKU and scraped-at with the incoming values, and leaves every row whose
\* source_url is not in the batch unchanged.
C16_UpsertFrame ==
    Committed =>
        \A old \in table_before :
            IF old.source_url \in BatchUrls
            THEN \E new \in products_table : \E i \in 1..Len(db_batch) :
                    /\ db_batch[i].source_url = old.source_url
                    /\ new.source_url = old.source_url
                    /\ new.id = old.id
                    /\ new.website_name = old.website_name
                    /\ new.product_name = db_batch[i].product_name
                    /\ new.price_excl_tax = db_batch[i].price_excl_tax
                    /\ new.category_path = db_batch[i].category_path
                    /\ new.image_url = db_batch[i].image_url
                    /\ new.sku = db_batch[i].sku
                    /\ new.scraped_at = db_calls
            ELSE old \in products_table

\* a conflict with another website_name incoming, beside a row not in the batch
C16_Witness ==
    /\ Committed
    /\ \E old \in table_before : \E i \in 1..Len(db_batch) :
          /\ db_batch[i].source_url = old.source_url
          /\ db_batch[i].website_name # old.website_name
    /\ \E other \in table_before : other.source_url \notin BatchUrls

(***************************************************************************)
(* More properties of the resolver (ResolverSpec)                          *)
(***************************************************************************)
CandidateUrls == { category_links[i].url : i \in 1..Len(category_links) }

SlashVariant(u) == u \o <<"/">>

\* every other candidate that extends u, letter case ignored, is u with one
\* trailing '/' added or differs from u in letter case only
OnlyVariantsExtend(u) ==
    \A v \in CandidateUrls \ {u} :
        StartsWith(CaseFold(v), CaseFold(u)) =>
            v = SlashVariant(u) \/ CaseFold(v) = CaseFold(u)

\* C13 as stated: a candidate whose only extending candidates are its
\* trailing-slash variant or letter-case variants survives the ancestor filter.
C13_SlashVariantSurvives ==
    Resolved =>
        \A u \in CandidateUrls : OnlyVariantsExtend(u) => u \in OutputUrls

\* C13 as amended: such a candidate survives exactly when its trailing-slash
\* variant is not a candidate; when the variant is a candidate it survives in
\* place of u. Letter-case variants never make the filter discard u.
C13_SlashVariantReplaces ==
    Resolved =>
        \A u \in CandidateUrls :
            OnlyVariantsExtend(u) =>
                /\ u \in OutputUrls <=> SlashVariant(u) \notin CandidateUrls
                /\ SlashVariant(u) \in CandidateUrls => SlashVariant(u) \in OutputUrls

\* u, its trailing-slash variant and a letter-case variant are all candidates
C13_Witness ==
    /\ Resolved
    /\ \E u \in CandidateUrls :
          /\ OnlyVariantsExtend(u)
          /\ SlashVariant(u) \in CandidateUrls
          /\ \E v \in CandidateUrls \ {u} : CaseFold(v) = CaseFold(u)
          /\ u \notin OutputUrls

LinksTo(doc, url) == { p \in CandidatePositions(doc) : ResolvedUrl(doc, p) = url }

\* p precedes q in the container's document
DocBefore(doc, p, q) == p < q

\* p precedes q when leaf links come first and index links after them, each
\* kind in the order of the document
LeafFirstBefore(doc, p, q) ==
    \/ doc[p].kind = "leaf" /\ doc[q].kind = "index"
    \/ doc[p].kind = doc[q].kind /\ p < q

\* the returned categories are ordered by the first link to each URL, and
\* each label is that of the last link to its URL, in the order Before
FollowsOrder(doc, Before(_, _, _)) ==
    LET First(url) == CHOOSE p \in LinksTo(doc, url) :
                          \A q \in LinksTo(doc, url) : q = p \/ Before(doc, p, q)
        Last(url)  == CHOOSE p \in LinksTo(doc, url) :
                          \A q \in LinksTo(doc, url) : q = p \/ Before(doc, q, p)
    IN  /\ \A i \in 1..Len(category_list) : \A j \in 1..Len(category_list) :
              i < j => Before(doc, First(category_list[i][2]), First(category_list[j][2]))
        /\ \A i \in 1..Len(category_list) :
              category_list[i][1] = full_category_name(doc, Last(category_list[i][2]))

\* C14 as stated: the order of the returned categories and the last-seen
\* label of a URL follow the order of the links in the container's document.
C14_DocumentOrder ==
    (Resolved /\ homepage.container) => FollowsOrder(homepage.links, DocBefore)

\* C14 as amended: they follow the order in which all leaf links come first,
\* in document order, and all index links after them, in document order.
C14_LeafLinksThenIndexLinks ==
    (Resolved /\ homepage.container) => FollowsOrder(homepage.links, LeafFirstBefore)

\* an index link precedes a leaf link in the document, both are returned, and
\* a URL is reached by a link of each kind
C14_Witness ==
    /\ Resolved
    /\ homepage.container
    /\ Len(category_list) >= 2
    /\ \E p \in CandidatePositions(homepage.links) :
          \E q \in CandidatePositions(homepage.links) :
              /\ p < q
              /\ homepage.links[p].kind = "index"
              /\ homepage.links[q].kind = "leaf"
    /\ \E p \in CandidatePositions(homepage.links) :
          \E q \in CandidatePositions(homepage.links) :
              /\ homepage.links[p].kind # homepage.links[q].kind
              /\ ResolvedUrl(homepage.links, p) = ResolvedUrl(homepage.links, q)

\* C18: when at least one menu link passes the placeholder check the resolver
\* returns at least one category, and every candidate that is not a string
\* prefix of another candidate is returned.
C18_FilterNeverEmpties ==
    (Resolved /\ homepage.container) =>
        /\ CandidatePositions(homepage.links) # {} => category_list # <<>>
        /\ \A u \in CandidateUrls :
              (\A v \in CandidateUrls : v # u => ~StartsWith(v, u)) => u \in OutputUrls

\* the filter discarded one of three candidates
C18_Witness ==
    /\ Resolved
    /\ homepage.container
    /\ Len(category_links) = 3
    /\ Len(category_list) = 2

(***************************************************************************)
(* More properties of main (Spec)                                          *)
(***************************************************************************)
\* the categories whose crawl ended by a return with records accumulated
DoneWithRecords == { c \in Categories : status[c] = "returned" /\ accumulated[c] # <<>> }

\* C15 as stated: every category whose crawl has returned with a non-empty
\* accumulator has had that accumulator handed to persistence in exactly one
\* call, and no other persistence call was made.
C15_BatchPerCategory ==
    /\ \A c \in DoneWithRecords :
          Cardinality({ k \in 1..Len(csv_calls) : csv_calls[k] = accumulated[c] }) = 1
    /\ Len(csv_calls) = Cardinality(DoneWithRecords)

\* C15 as amended: main never calls save_products_to_db and hands nothing to
\* persistence while categories are crawled; the final report makes one CSV
\* write of all of ALL_PRODUCTS_DATA when it is not empty, and none otherwise.
C15_OneWriteAtReport ==
    /\ db_calls = 0
    /\ pc # "done" => csv_calls = <<>>
    /\ pc = "done" =>
          csv_calls = IF ALL_PRODUCTS_DATA # <<>> THEN <<ALL_PRODUCTS_DATA>> ELSE <<>>

\* a run ended with two categories that returned records and one CSV write
C15_Witness ==
    /\ pc = "done"
    /\ Cardinality(DoneWithRecords) >= 2
    /\ Len(csv_calls) = 1

\* the records returned by categories 1..n, those that raised left out
RECURSIVE ReturnedRecords(_)
ReturnedRecords(n) ==
    IF n = 0 THEN <<>>
    ELSE ReturnedRecords(n - 1)
            \o (IF status[n] = "returned" THEN RecordsOfPages(n, Len(trace[n])) ELSE <<>>)

\* C19: at the end of a run total_products_scraped is the length of
\* ALL_PRODUCTS_DATA, and ALL_PRODUCTS_DATA is the concatenation, in resolver
\* output order, of the records returned by the categories that did not
\* raise, each in page order.
C19_GlobalAccumulator ==
    pc = "done" =>
        /\ total_products_scraped = Len(ALL_PRODUCTS_DATA)
        /\ ALL_PRODUCTS_DATA = ReturnedRecords(Len(category_list))

\* a run ended after a category that raised with records and two that
\* returned records, one of them from two pages
C19_Witness ==
    /\ pc = "done"
    /\ \E c \in Categories : status[c] = "raised" /\ accumulated[c] # <<>>
    /\ \E c \in DoneWithRecords : \E d \in DoneWithRecords :
          c < d /\ Len(trace[c]) >= 2

\* C20: the emergency break is never taken: at the head of every iteration
\* categories_processed is below total_categories and counts the categories
\* before the current one, which are exactly those attempted, and the loop
\* ends with every category attempted.
C20_EmergencyBreakUnreachable ==
    /\ ~emergency_break
    /\ (pc = "loop" /\ idx <= Len(category_list)) =>
          categories_processed < total_categories
    /\ (Resolved /\ pc = "loop") =>
          /\ categories_processed = idx - 1
          /\ \A c \in Categories :
                IF c < idx THEN status[c] \in {"returned", "raised"}
                ELSE status[c] = "pending" /\ trace[c] = <<>>
    /\ (Resolved /\ pc \in {"report", "done"}) =>
          \A c \in Categories : status[c] \in {"returned", "raised"}

\* the loop ran out of categories after attempting each of several
C20_Witness ==
    /\ Resolved
    /\ pc = "report"
    /\ Len(category_list) >= 2
    /\ categories_processed = total_categories
    /\ \E c \in Categories : status[c] = "raised"

(***************************************************************************)
(* Properties of the price extraction (PriceSpec)                          *)
(***************************************************************************)
\* a decimal number: runs of digits with at most one period, and some digit
IsDecimal(s) ==
    /\ \A i \in 1..Len(s) : s[i] \in DigitRuns \cup {"."}
    /\ \E i \in 1..Len(s) : s[i] \in DigitRuns
    /\ \A i \in 1..Len(s) : \A j \in 1..Len(s) : (s[i] = "." /\ s[j] = ".") => i = j

\* the price text as described: currency symbol and thousands separators
\* removed, the decimal comma turned into a period
DescribedText(text) ==
    Strip(Replace(Replace(Replace(text, "€", ""), ".", ""), ",", "."))

\* an absent price: 'N/A' or the empty string
IsAbsent(p) == p = NA \/ p = <<>>

\* C17: the stored price of every price text is the text without currency
\* symbol and thousands separators and with a decimal period ('€ 1.234,56'
\* gives 1234.56), and it is absent when that is not a decimal.
C17_PriceParsedAsDecimal ==
    IF IsDecimal(DescribedText(price_text))
    THEN price = DescribedText(price_text)
    ELSE IsAbsent(price)

====
